---- MODULE Spec2Model ----
(***************************************************************************)
(* Confiteria Dulcino - registro de productos (src/main.py).               *)
(*                                                                         *)
(* Text is modelled as a sequence of one-character strings, so that        *)
(* str.strip, str.split and str.join act on characters.  Prices are        *)
(* integer cents (0.01 is 1, 998.99 is 99899, 999 is 99900).               *)
(***************************************************************************)
EXTENDS Integers, Sequences, FiniteSets, TLC

VARIABLES rows, nextId, now, form, op, err, notice,
          ITEMS_PER_PAGE, category_filter, current_page, producto_id

vars == <<rows, nextId, now, form, op, err, notice,
          ITEMS_PER_PAGE, category_filter, current_page, producto_id>>

-----------------------------------------------------------------------------
(* Bounds of the exploration *)

MaxClock == 3
MaxCats == 2
MaxItems == 21

-----------------------------------------------------------------------------
(* Text *)

Chocolates == <<"C", "h", "o", "c", "o", "l", "a", "t", "e", "s">>
Caramelos == <<"C", "a", "r", "a", "m", "e", "l", "o", "s">>
Mashmelos == <<"M", "a", "s", "h", "m", "e", "l", "o", "s">>
Galletas == <<"G", "a", "l", "l", "e", "t", "a", "s">>
Salados == <<"S", "a", "l", "a", "d", "o", "s">>
GomasDeMascar == <<"G", "o", "m", "a", "s", " ", "d", "e", " ", "m", "a", "s", "c", "a", "r">>
Lacteos == <<"L", "a", "c", "t", "e", "o", "s">>

ALLOWED_CATEGORIES == <<Chocolates, Caramelos, Mashmelos, Galletas, Salados, GomasDeMascar>>

Range(s) == {s[i] : i \in 1..Len(s)}

Whitespace == {" ", "\t", "\n"}

\* str.strip(): drop the leading and the trailing whitespace characters
RECURSIVE lstrip(_)
lstrip(s) == IF s # <<>> /\ Head(s) \in Whitespace THEN lstrip(Tail(s)) ELSE s

RECURSIVE rstrip(_)
rstrip(s) ==
    IF s # <<>> /\ s[Len(s)] \in Whitespace THEN rstrip(SubSeq(s, 1, Len(s) - 1)) ELSE s

strip(s) == rstrip(lstrip(s))

\* str.split(sep): the pieces between the separators, empty pieces included
RECURSIVE split(_, _)
split(s, sep) ==
    IF \A i \in 1..Len(s) : s[i] # sep
    THEN <<s>>
    ELSE LET k == CHOOSE i \in 1..Len(s) : s[i] = sep /\ \A j \in 1..(i - 1) : s[j] # sep
         IN <<SubSeq(s, 1, k - 1)>> \o split(SubSeq(s, k + 1, Len(s)), sep)

\* sep.join(list)
RECURSIVE join(_, _)
join(list, sep) ==
    IF list = <<>> THEN <<>>
    ELSE IF Len(list) = 1 THEN list[1]
    ELSE list[1] \o <<sep>> \o join(Tail(list), sep)

\* str.lower(), on the letters of the word the handlers look for
lower(s) ==
    [i \in 1..Len(s) |->
        CASE s[i] = "P" -> "p" [] s[i] = "R" -> "r" [] s[i] = "E" -> "e"
          [] s[i] = "C" -> "c" [] s[i] = "I" -> "i" [] s[i] = "O" -> "o"
          [] OTHER -> s[i]]

\* sub in s
contains(s, sub) ==
    \E i \in 1..(Len(s) - Len(sub) + 1) : SubSeq(s, i, i + Len(sub) - 1) = sub

-----------------------------------------------------------------------------
(* Utilidades *)

categorias_to_list(categorias_str) ==
    LET parts == split(categorias_str, ";")
    IN SelectSeq([i \in 1..Len(parts) |-> strip(parts[i])], LAMBDA c : c # <<>>)

RECURSIVE dedup(_)
dedup(list) ==
    IF list = <<>> THEN <<>>
    ELSE LET init == dedup(SubSeq(list, 1, Len(list) - 1))
             last == list[Len(list)]
         IN IF last \in Range(init) THEN init ELSE Append(init, last)

categorias_to_string_dedup(categorias_list) == join(dedup(categorias_list), ";")

categorias_to_string_comma(categorias_list) == join(categorias_list, ",")

categorias_to_string(categorias_list) == join(categorias_list, ";")

\* The values validar returns: None, or the reason (arg is the label an
\* f-string puts into it)
None == [msg |-> "None", arg |-> <<>>]
ErrNombre == [msg |-> "El nombre es obligatorio y debe de tener <= 20 caracteres.", arg |-> <<>>]
ErrPrecioCampo == [msg |-> "Por favor verifique el campo precio.", arg |-> <<>>]
ErrPrecioRango == [msg |-> "El precio debe ser mayor a 0 y menor a 999", arg |-> <<>>]
ErrSinCategoria == [msg |-> "Debe elegir al menos una categoría", arg |-> <<>>]
ErrCategoria(c) == [msg |-> "Categoría inválida: ", arg |-> c]

\* the first label of the list that is not in the catalogue
primera_invalida(categorias) ==
    LET k == CHOOSE i \in 1..Len(categorias) :
                 /\ categorias[i] \notin Range(ALLOWED_CATEGORIES)
                 /\ \A j \in 1..(i - 1) : categorias[j] \in Range(ALLOWED_CATEGORIES)
    IN categorias[k]

validar_categorias(categorias) ==
    IF categorias = <<>> THEN ErrSinCategoria
    ELSE IF \E i \in 1..Len(categorias) : categorias[i] \notin Range(ALLOWED_CATEGORIES)
    THEN ErrCategoria(primera_invalida(categorias))
    ELSE None

validar_precio(precio, categorias) ==
    IF precio.kind # "num" THEN ErrPrecioCampo
    ELSE IF ~(0 < precio.cents /\ precio.cents < 99900) THEN ErrPrecioRango
    ELSE validar_categorias(categorias)

\* a slip: the upper boundary is let through
validar_le999(nombre, precio, categorias) ==
    IF nombre = <<>> \/ Len(strip(nombre)) = 0 \/ Len(strip(nombre)) > 20 THEN ErrNombre
    ELSE IF precio.kind # "num" THEN ErrPrecioCampo
    ELSE IF ~(0 < precio.cents /\ precio.cents <= 99900) THEN ErrPrecioRango
    ELSE validar_categorias(categorias)

\* a slip: the length is taken of the raw name
validar_nostrip(nombre, precio, categorias) ==
    IF nombre = <<>> \/ Len(strip(nombre)) = 0 \/ Len(nombre) > 20 THEN ErrNombre
    ELSE validar_precio(precio, categorias)

\* a slip: only the first label is looked up
validar_firstcat(nombre, precio, categorias) ==
    IF nombre = <<>> \/ Len(strip(nombre)) = 0 \/ Len(strip(nombre)) > 20 THEN ErrNombre
    ELSE IF precio.kind # "num" THEN ErrPrecioCampo
    ELSE IF ~(0 < precio.cents /\ precio.cents < 99900) THEN ErrPrecioRango
    ELSE IF categorias = <<>> THEN ErrSinCategoria
    ELSE IF categorias[1] \notin Range(ALLOWED_CATEGORIES) THEN ErrCategoria(categorias[1])
    ELSE None

validar(nombre, precio, categorias) ==
    IF nombre = <<>> \/ Len(strip(nombre)) = 0 \/ Len(strip(nombre)) > 20 THEN ErrNombre
    ELSE validar_precio(precio, categorias)

-----------------------------------------------------------------------------
(* Funciones CRUD: the table confiteria_duicino is the set rows *)

RECURSIVE order_ts_desc(_)
order_ts_desc(rs) ==
    IF rs = {} THEN <<>>
    ELSE LET r == CHOOSE x \in rs : \A y \in rs : y.ts <= x.ts
         IN <<r>> \o order_ts_desc(rs \ {r})

\* select id_product,nombre,precio,categorias,en_venta,ts order by ts desc; the
\* ts column is then replaced by its display text, which no operation reads
sb_list(rs) ==
    LET res == order_ts_desc(rs)
    IN [i \in 1..Len(res) |->
           [id_product |-> res[i].id_product, nombre |-> res[i].nombre,
            precio |-> res[i].precio, categorias |-> res[i].categorias,
            en_venta |-> res[i].en_venta]]

sb_insert(nombre, precio, categorias, en_venta) ==
    rows \cup {[id_product |-> nextId, nombre |-> nombre, precio |-> precio,
                categorias |-> categorias_to_string(categorias),
                en_venta |-> en_venta, ts |-> now]}

\* a slip: the update stamps the row as the insert does
sb_update_ts(id_, nombre, precio, categorias, en_venta) ==
    {IF r.id_product = id_
     THEN [r EXCEPT !.nombre = nombre, !.precio = precio,
                    !.categorias = categorias_to_string(categorias),
                    !.en_venta = en_venta, !.ts = now]
     ELSE r : r \in rows}

sb_update(id_, nombre, precio, categorias, en_venta) ==
    {IF r.id_product = id_
     THEN [r EXCEPT !.nombre = nombre, !.precio = precio,
                    !.categorias = categorias_to_string(categorias),
                    !.en_venta = en_venta]
     ELSE r : r \in rows}

sb_delete(id_) == {r \in rows : r.id_product # id_}

-----------------------------------------------------------------------------
(* UI: listar / filtrar / paginacion *)

PAGE_SIZES == {5, 10, 20, 50}

\* the rows of sb_list that pass the category filter (any label of the filter
\* is in the row's categorias_list); the name search is held empty
filtered(rs, filt) ==
    LET df == sb_list(rs)
    IN IF filt = <<>> THEN df
       ELSE SelectSeq(df, LAMBDA r :
                \E c \in Range(filt) : c \in Range(categorias_to_list(r.categorias)))

\* a slip: the division rounds up by adding a page
total_pages_plus1(total_items, per_page) == total_items \div per_page + 1

total_pages(total_items, per_page) == (total_items + per_page - 1) \div per_page

start_idx(page, per_page) == (page - 1) * per_page

end_idx(page, per_page, total_items) ==
    IF start_idx(page, per_page) + per_page < total_items
    THEN start_idx(page, per_page) + per_page
    ELSE total_items

\* df.iloc[start_idx:end_idx]
df_page(df, page, per_page) ==
    SubSeq(df, start_idx(page, per_page) + 1, end_idx(page, per_page, Len(df)))

\* the id_product values the edit selector offers
opciones(df, page, per_page) == {r.id_product : r \in Range(df_page(df, page, per_page))}

\* One run of the script below the add form, for the table rs and the widget
\* values per_page, filt, page and prod
Render(rs, per_page, filt, page, prod) ==
    /\ ITEMS_PER_PAGE' = per_page
    /\ category_filter' = filt
    /\ current_page' = page
    /\ producto_id' = prod

\* What a select box returns when the script runs again: the value it had
\* while its options are the same; once they changed, either the first option
\* or the old value if it is still offered
PageChoices(rs, per_page, filt) ==
    LET old == total_pages(Len(filtered(rows, category_filter)), ITEMS_PER_PAGE)
        new == total_pages(Len(filtered(rs, filt)), per_page)
    IN IF filtered(rs, filt) = <<>> THEN {current_page}
       ELSE IF new = old /\ filtered(rows, category_filter) # <<>> THEN {current_page}
       ELSE {1} \cup ({current_page} \cap 1..new)

ProductoChoices(rs, per_page, filt, page) ==
    LET df == filtered(rs, filt)
        shown == df_page(df, page, per_page)
        before == IF filtered(rows, category_filter) = <<>> THEN <<>>
                  ELSE df_page(filtered(rows, category_filter), current_page, ITEMS_PER_PAGE)
    IN IF df = <<>> THEN {0}
       ELSE IF shown = before THEN {producto_id}
       ELSE {shown[1].id_product} \cup ({producto_id} \cap opciones(df, page, per_page))

Rerun(rs, per_page, filt) ==
    \E page \in PageChoices(rs, per_page, filt) :
        \E prod \in ProductoChoices(rs, per_page, filt, page) :
            Render(rs, per_page, filt, page, prod)

page_widgets == <<ITEMS_PER_PAGE, category_filter, current_page, producto_id>>

-----------------------------------------------------------------------------
(* UI: the handlers *)

\* st.radio(...) == "Sí"; the slip takes every label but the negative one as yes
en_venta_not_no(label) == label # "No"

en_venta_value(label) == label = "Sí"

\* "precio" in err.lower()
mentions_precio(e) ==
    \/ e.msg \in {ErrPrecioCampo.msg, ErrPrecioRango.msg}
    \/ contains(lower(e.arg), <<"p", "r", "e", "c", "i", "o">>)

\* a slip: the raw name is stored
CreateHandler_raw(f) ==
    LET e == validar(f.nombre, f.precio, f.categorias)
    IN /\ now < MaxClock
       /\ form' = f
       /\ err' = e
       /\ op' = [kind |-> "create", id |-> nextId, at |-> now]
       /\ IF e # None
          THEN /\ notice' = IF mentions_precio(e)
                            THEN "Por favor verifique el campo precio"
                            ELSE "Lo sentimos no pudo crear este producto"
               /\ UNCHANGED <<rows, nextId, now, page_widgets>>
          ELSE /\ rows' = sb_insert(f.nombre, f.precio.cents, f.categorias,
                                    en_venta_value(f.en_venta))
               /\ nextId' = nextId + 1
               /\ now' = now + 1
               /\ notice' = "Felicidades su producto se agregó"
               /\ Rerun(rows', ITEMS_PER_PAGE, category_filter)

\* if submitted: (form-add)
CreateHandler(f) ==
    LET e == validar(f.nombre, f.precio, f.categorias)
    IN /\ now < MaxClock
       /\ form' = f
       /\ err' = e
       /\ op' = [kind |-> "create", id |-> nextId, at |-> now]
       /\ IF e # None
          THEN /\ notice' = IF mentions_precio(e)
                            THEN "Por favor verifique el campo precio"
                            ELSE "Lo sentimos no pudo crear este producto"
               /\ UNCHANGED <<rows, nextId, now, page_widgets>>
          ELSE /\ rows' = sb_insert(strip(f.nombre), f.precio.cents, f.categorias,
                                    en_venta_value(f.en_venta))
               /\ nextId' = nextId + 1
               /\ now' = now + 1
               /\ notice' = "Felicidades su producto se agregó"
               /\ Rerun(rows', ITEMS_PER_PAGE, category_filter)

\* a slip: the update is sent whatever validar said
UpdateHandler_nogate(f) ==
    LET e == validar(f.nombre, f.precio, f.categorias)
    IN /\ now < MaxClock
       /\ producto_id # 0
       /\ form' = f
       /\ err' = e
       /\ op' = [kind |-> "update", id |-> producto_id, at |-> now]
       /\ rows' = sb_update(producto_id, strip(f.nombre),
                            IF f.precio.kind = "num" THEN f.precio.cents ELSE 0,
                            f.categorias, en_venta_value(f.en_venta))
       /\ now' = now + 1
       /\ notice' = "Producto Actualizado."
       /\ nextId' = nextId
       /\ Rerun(rows', ITEMS_PER_PAGE, category_filter)

\* if btn_update: (form-edit, on the product the selector holds)
UpdateHandler(f) ==
    LET e == validar(f.nombre, f.precio, f.categorias)
    IN /\ now < MaxClock
       /\ producto_id # 0
       /\ form' = f
       /\ err' = e
       /\ op' = [kind |-> "update", id |-> producto_id, at |-> now]
       /\ IF e # None
          THEN /\ notice' = IF mentions_precio(e)
                            THEN "Por favor verifique el campo precio."
                            ELSE "Lo sentimos no pudo actualizar este producto."
               /\ UNCHANGED <<rows, nextId, now, page_widgets>>
          ELSE /\ rows' = sb_update(producto_id, strip(f.nombre), f.precio.cents,
                                    f.categorias, en_venta_value(f.en_venta))
               /\ now' = now + 1
               /\ notice' = "Producto Actualizado."
               /\ nextId' = nextId
               /\ Rerun(rows', ITEMS_PER_PAGE, category_filter)

\* if btn_delete:
DeleteHandler ==
    /\ producto_id # 0
    /\ op' = [kind |-> "delete", id |-> producto_id, at |-> now]
    /\ rows' = sb_delete(producto_id)
    /\ notice' = "Producto Eliminado"
    /\ UNCHANGED <<nextId, now, form, err>>
    /\ Rerun(rows', ITEMS_PER_PAGE, category_filter)

\* the edit selector
SelectProducto ==
    /\ filtered(rows, category_filter) # <<>>
    /\ \E id \in opciones(filtered(rows, category_filter), current_page, ITEMS_PER_PAGE) :
           Render(rows, ITEMS_PER_PAGE, category_filter, current_page, id)
    /\ UNCHANGED <<rows, nextId, now, form, op, err, notice>>

\* the page selector
SelectPage ==
    /\ filtered(rows, category_filter) # <<>>
    /\ \E page \in 1..total_pages(Len(filtered(rows, category_filter)), ITEMS_PER_PAGE) :
           \E prod \in ProductoChoices(rows, ITEMS_PER_PAGE, category_filter, page) :
               Render(rows, ITEMS_PER_PAGE, category_filter, page, prod)
    /\ UNCHANGED <<rows, nextId, now, form, op, err, notice>>

\* the sidebar: products per page
SetItemsPerPage ==
    /\ \E per_page \in PAGE_SIZES : Rerun(rows, per_page, category_filter)
    /\ UNCHANGED <<rows, nextId, now, form, op, err, notice>>

\* the sidebar: filter by category
SetCategoryFilter ==
    /\ \E filt \in {<<>>, <<Chocolates>>, <<Caramelos>>, <<Chocolates, Caramelos>>} :
           Rerun(rows, ITEMS_PER_PAGE, filt)
    /\ UNCHANGED <<rows, nextId, now, form, op, err, notice>>

-----------------------------------------------------------------------------
(* The raw field values a submission may carry *)

Rep(c, n) == [i \in 1..n |-> c]

Tu == <<"T", "u">>
Nombre20 == Rep("a", 20)
Nombre21 == Rep("a", 21)

Nombres == {<<>>, <<" ", "\t">>, Tu, <<" ">> \o Tu \o <<" ">>,
            <<" ">> \o Nombre20 \o <<" ">>, Nombre21}

Num(c) == [kind |-> "num", cents |-> c]
NoNum == [kind |-> "text", cents |-> 0]

Precios == {NoNum, Num(0), Num(1), Num(99899), Num(99900)}

Labels == {Chocolates, Caramelos, GomasDeMascar, Lacteos}

Categorias == UNION {[1..k -> Labels] : k \in 0..MaxCats}

EnVenta == {"Sí", "No", "Si"}

AllForms == [nombre : Nombres, precio : Precios, categorias : Categorias, en_venta : EnVenta]

Form(n, p, c, v) == [nombre |-> n, precio |-> p, categorias |-> c, en_venta |-> v]

\* the submissions of the long runs: accepted ones that differ in every field,
\* and one rejected for each reason
CrudForms ==
    { Form(<<" ">> \o Tu \o <<" ">>, Num(1550), <<Chocolates, Chocolates>>, "Sí"),
      Form(Tu, Num(1), <<Chocolates, Caramelos>>, "No"),
      Form(Tu, Num(1), <<Caramelos, Chocolates>>, "Sí"),
      Form(<<" ">> \o Nombre20 \o <<" ">>, Num(99899), <<Caramelos, GomasDeMascar>>, "Si"),
      Form(<<>>, Num(1550), <<Chocolates>>, "Sí"),
      Form(Nombre21, Num(1550), <<Chocolates>>, "No"),
      Form(Tu, NoNum, <<Chocolates>>, "Sí"),
      Form(Tu, Num(0), <<Chocolates>>, "Sí"),
      Form(Tu, Num(99900), <<Chocolates>>, "No"),
      Form(Tu, Num(1550), <<>>, "Sí"),
      Form(Tu, Num(1550), <<Chocolates, Lacteos>>, "Si") }

\* the add form as it is first drawn
BlankForm == Form(<<>>, Num(1), <<>>, "Sí")

-----------------------------------------------------------------------------
(* The program: any sequence of submissions on the table *)

Init ==
    /\ rows = {}
    /\ nextId = 1
    /\ now = 0
    /\ form = BlankForm
    /\ op = [kind |-> "none", id |-> 0, at |-> 0]
    /\ err = None
    /\ notice = ""
    /\ ITEMS_PER_PAGE = 10
    /\ category_filter = <<>>
    /\ current_page = 1
    /\ producto_id = 0

Create == \E f \in CrudForms : CreateHandler(f)

Update == \E f \in CrudForms : UpdateHandler(f)

Delete == DeleteHandler

Next == Create \/ Update \/ Delete \/ SelectProducto

Spec == Init /\ [][Next]_vars

(* One submission of the add form, over every combination of raw values *)

InitForm ==
    /\ rows = {}
    /\ nextId = 1
    /\ now = 0
    /\ form \in AllForms
    /\ op = [kind |-> "none", id |-> 0, at |-> 0]
    /\ err = None
    /\ notice = ""
    /\ ITEMS_PER_PAGE = 10
    /\ category_filter = <<>>
    /\ current_page = 1
    /\ producto_id = 0

Submit == op.kind = "none" /\ CreateHandler(form)

NextForm == Submit

SpecForm == InitForm /\ [][NextForm]_vars

(* Browsing a table of n products *)

SeedRow(i) ==
    [id_product |-> i, nombre |-> Tu, precio |-> 1550,
     categorias |-> categorias_to_string(
                        CASE i % 3 = 0 -> <<Caramelos>>
                          [] i % 3 = 1 -> <<Chocolates>>
                          [] OTHER -> <<Chocolates, Caramelos>>),
     en_venta |-> TRUE, ts |-> i - 1]

InitPage ==
    /\ \E n \in 1..MaxItems : /\ rows = {SeedRow(i) : i \in 1..n}
                              /\ nextId = n + 1
                              /\ now = n
                              /\ producto_id = n
    /\ form = BlankForm
    /\ op = [kind |-> "none", id |-> 0, at |-> 0]
    /\ err = None
    /\ notice = ""
    /\ ITEMS_PER_PAGE = 10
    /\ category_filter = <<>>
    /\ current_page = 1

NextPage == SetItemsPerPage \/ SetCategoryFilter \/ SelectPage \/ SelectProducto

SpecPage == InitPage /\ [][NextPage]_vars

-----------------------------------------------------------------------------
(* What the claims speak of *)

NombreValido(nombre) == Len(strip(nombre)) >= 1 /\ Len(strip(nombre)) <= 20

PrecioValido(precio) == precio.kind = "num" /\ precio.cents > 0 /\ precio.cents < 99900

CategoriasValidas(categorias) ==
    categorias # <<>> /\ \A i \in 1..Len(categorias) : categorias[i] \in Range(ALLOWED_CATEGORIES)

ProductoValido(r) ==
    /\ NombreValido(r.nombre)
    /\ strip(r.nombre) = r.nombre
    /\ r.precio > 0 /\ r.precio < 99900
    /\ CategoriasValidas(categorias_to_list(r.categorias))

Submitted == op.kind \in {"create", "update"}

Accepted == Submitted /\ err = None

\* the rows with the id the last handler wrote to
Written == {r \in rows : r.id_product = op.id}

\* characters in code point order, and the order of str on them
CodeOrder == <<"\t", "\n", " ", ";", "C", "G", "L", "M", "S", "T", "a", "c", "d", "e",
               "h", "l", "m", "o", "r", "s", "t", "u">>

Code(ch) == CHOOSE i \in 1..Len(CodeOrder) : CodeOrder[i] = ch

RECURSIVE Less(_, _)
Less(a, b) ==
    IF b = <<>> THEN FALSE
    ELSE IF a = <<>> THEN TRUE
    ELSE IF Head(a) = Head(b) THEN Less(Tail(a), Tail(b))
    ELSE Code(Head(a)) < Code(Head(b))

\* the least k with k * per_page >= n
Ceil(n, per_page) == CHOOSE k \in 0..n : k * per_page >= n /\ (k - 1) * per_page < n

\* C1: after any sequence of create, update and delete submissions every
\* stored product has a trimmed name of 1 to 20 characters, a price strictly
\* between 0 and 999 and a non-empty list of catalogue categories, and a
\* handler changes the table only when validar returned None.
C1_StoredProductsValid ==
    [][ /\ \A r \in rows' : ProductoValido(r)
        /\ (rows' # rows /\ op'.kind \in {"create", "update"}) => err' = None ]_vars

C1_Witness ==
    /\ op.kind = "delete"
    /\ Cardinality(rows) >= 2
    /\ \E r \in rows : r.nombre = Nombre20 /\ r.precio = 99899

\* C2: when validar rejects a create or an update submission the table is
\* exactly as before and no id is consumed.
C2_RejectedWritesNothing ==
    [][ (op' # op /\ op'.kind \in {"create", "update"} /\ err' # None)
            => (rows' = rows /\ nextId' = nextId) ]_vars

C2_Witness == op.kind = "update" /\ err = ErrPrecioRango /\ rows # {}

\* C3: with a valid name and valid categories, validar accepts exactly the
\* prices strictly between 0 and 999 (0 and 999 rejected, 0.01 and 998.99
\* accepted).
C3_PriceOpenInterval ==
    (op.kind = "create" /\ NombreValido(form.nombre) /\ CategoriasValidas(form.categorias)
        /\ form.precio.kind = "num")
        => ((err = None) <=> (form.precio.cents > 0 /\ form.precio.cents < 99900))

C3_Witness ==
    /\ op.kind = "create" /\ err = None
    /\ form.precio = Num(99899)
    /\ \E r \in rows : r.precio = 99899

\* C4: a name whose trimmed length is 0 or above 20 is rejected with the
\* name reason whatever the price and the categories are, and a name whose
\* trimmed length is 1 to 20 is never rejected with it.
C4_NameLength ==
    op.kind = "create" =>
        /\ ~NombreValido(form.nombre) => err = ErrNombre
        /\ NombreValido(form.nombre) => err # ErrNombre

C4_Witness ==
    /\ op.kind = "create" /\ err = ErrNombre
    /\ form.nombre = Nombre21
    /\ form.precio = Num(99900)
    /\ form.categorias = <<>>

\* C5: a category list that is empty or holds a label outside the catalogue
\* is rejected whatever the other fields are.
C5_UnknownCategoryRejected ==
    (op.kind = "create" /\ ~CategoriasValidas(form.categorias)) => err # None

C5_Witness ==
    /\ op.kind = "create" /\ err = ErrCategoria(Lacteos)
    /\ form.categorias = <<Chocolates, Lacteos>>
    /\ rows = {}

\* C6 as stated: the stored categories are deduplicated and in lexicographic
\* order.
C6_StoredSortedDedup ==
    \A r \in rows :
        LET l == categorias_to_list(r.categorias)
        IN \A i \in 1..(Len(l) - 1) : Less(l[i], l[i + 1])

\* C6 as amended: the stored categories are the submitted labels in the
\* order of the submission, repeated labels kept.
C6_StoredAsSubmitted ==
    Accepted => /\ Written # {}
                /\ \A r \in Written : categorias_to_list(r.categorias) = form.categorias

C6_Witness ==
    /\ Accepted
    /\ form.categorias = <<Chocolates, Chocolates>>
    /\ \E r \in Written : r.categorias = Chocolates \o <<";">> \o Chocolates
    /\ \E r1, r2 \in rows :
           /\ Range(categorias_to_list(r1.categorias)) = Range(categorias_to_list(r2.categorias))
           /\ r1.categorias # r2.categorias

UpdateReplaces(stamp_is_update_time) ==
    (op' # op /\ op'.kind = "update" /\ err' = None) =>
        \E old \in rows : \E new \in rows' :
            /\ old.id_product = op'.id
            /\ new.id_product = old.id_product
            /\ new.nombre = strip(form'.nombre)
            /\ new.precio = form'.precio.cents
            /\ categorias_to_list(new.categorias) = form'.categorias
            /\ new.en_venta = (form'.en_venta = "Sí")
            /\ new.ts = IF stamp_is_update_time THEN op'.at ELSE old.ts
            /\ rows' \ {new} = rows \ {old}
            /\ nextId' = nextId

\* C8 as stated: an accepted update replaces name, price, categories and
\* onSale, refreshes the time stamp to the moment of the update and leaves the
\* id and every other product unchanged.
C8_UpdateRefreshesTs == [][UpdateReplaces(TRUE)]_vars

\* C8 as amended: an accepted update replaces name, price, categories and
\* onSale and leaves the id, the time stamp of the insert and every other
\* product unchanged.
C8_UpdateKeepsTs == [][UpdateReplaces(FALSE)]_vars

C8_Witness ==
    /\ op.kind = "update" /\ err = None
    /\ Cardinality(rows) >= 2
    /\ \E r \in Written : r.ts < op.at /\ r.en_venta = FALSE /\ r.nombre = Tu

\* C9: after an accepted insert the listing holds a record with the
\* submitted name (trimmed), price, on-sale flag and categories, and
\* categorias_to_list(categorias_to_string(l)) = l for the accepted list l.
C9_RoundTrip ==
    (op.kind = "create" /\ err = None) =>
        /\ \E i \in 1..Len(sb_list(rows)) :
               LET r == sb_list(rows)[i]
               IN /\ r.id_product = op.id
                  /\ r.nombre = strip(form.nombre)
                  /\ r.precio = form.precio.cents
                  /\ r.en_venta = (form.en_venta = "Sí")
                  /\ categorias_to_list(r.categorias) = form.categorias
        /\ categorias_to_list(categorias_to_string(form.categorias)) = form.categorias

C9_Witness ==
    /\ op.kind = "create" /\ err = None
    /\ form.categorias = <<GomasDeMascar, Chocolates>>
    /\ form.nombre = <<" ">> \o Tu \o <<" ">>
    /\ Len(sb_list(rows)) = 1

\* C10: the pages partition the filtered list: total_pages is ceil(n / page
\* size), every page shows 1 to page-size products, every product is on
\* exactly one page, and the product selected for edit/delete is on the
\* current page.
C10_PagesPartition ==
    LET df == filtered(rows, category_filter)
        n == Len(df)
        tp == total_pages(n, ITEMS_PER_PAGE)
        Pos(pg) == (start_idx(pg, ITEMS_PER_PAGE) + 1)..end_idx(pg, ITEMS_PER_PAGE, n)
    IN n > 0 =>
        /\ ITEMS_PER_PAGE \in PAGE_SIZES
        /\ tp = Ceil(n, ITEMS_PER_PAGE)
        /\ current_page \in 1..tp
        /\ \A pg \in 1..tp :
               /\ Len(df_page(df, pg, ITEMS_PER_PAGE)) >= 1
               /\ Len(df_page(df, pg, ITEMS_PER_PAGE)) <= ITEMS_PER_PAGE
               /\ df_page(df, pg, ITEMS_PER_PAGE) = [i \in 1..Cardinality(Pos(pg)) |->
                                                        df[start_idx(pg, ITEMS_PER_PAGE) + i]]
        /\ \A i \in 1..n : Cardinality({pg \in 1..tp : i \in Pos(pg)}) = 1
        /\ \A pg, qg \in 1..tp :
               pg # qg => opciones(df, pg, ITEMS_PER_PAGE) \cap opciones(df, qg, ITEMS_PER_PAGE) = {}
        /\ producto_id \in opciones(df, current_page, ITEMS_PER_PAGE)

C10_Witness ==
    LET df == filtered(rows, category_filter)
    IN /\ category_filter = <<Caramelos>>
       /\ ITEMS_PER_PAGE = 5
       /\ total_pages(Len(df), ITEMS_PER_PAGE) = 3
       /\ current_page = 3
       /\ Len(df_page(df, current_page, ITEMS_PER_PAGE)) = 2
       /\ producto_id = df[Len(df)].id_product

====
